---- MODULE Spec2Model ----
(***************************************************************************)
(* A model of DiskVec (src/src/lib.rs): a thread-safe on-disk vector made  *)
(* of memory-mapped rank files.  Rank r is a file of 2^r elements named by *)
(* the rank number; an element equal to T::ZEROED (0 here) is an empty     *)
(* slot.  The model follows new, get, get_mut, len and push line by line,  *)
(* one action per atomic step of each method.                              *)
(*                                                                         *)
(* Atomics are modelled sequentially consistent and in program order.      *)
(***************************************************************************)
EXTENDS Integers, Sequences, FiniteSets, TLC

\* ------------------------------------------------------------- constants
RANKS == 128
LOCKS == 1024
\* mem::size_of::<usize>() * 8 on the 64-bit targets the crate is built for
USIZE_BITS == 64
\* T::ZEROED, the all-zero element
ZEROED == 0

\* ---------------------------------------------------------------- bounds
\* threads sharing one container
NThreads == 2
\* the length counter is not advanced past MaxPush
MaxPush == 4
\* the same for the single-threaded runs and for the runs with one appender
MaxPushSeq == 6
MaxPushMut == 3
\* pushed values are drawn from 0..MaxVal (0 is T::ZEROED)
MaxVal == 1
\* injected I/O failures per session
MaxFail == 1
\* increments made through get_mut in one run
MaxIncr == 1
\* the same for the runs with one appender
MaxIncrMut == 2
\* MutableReferences one thread holds or waits for at once
MaxHandles == 2
\* a usize is modelled WordBits wide where the index algebra is checked at the
\* edges of the machine word (the arithmetic is the same at every width)
WordBits == 6

Threads == 1..NThreads

VARIABLES
    disk,          \* the directory: file name -> sequence of elements
    proc,          \* "open": a DiskVec exists; "closed": dropped; "dead": killed by a signal
    ranks,         \* ranks[r] when rank r holds Some(mmap): the name of the mapped file
    initialized,   \* AtomicUsize initialized
    len,           \* AtomicUsize len
    rank_writelock,\* holder of the growth mutex, 0 when free
    writelocks,    \* the residues (idx % LOCKS) whose mutex is locked
    pc,            \* each thread's position
    idx,           \* each thread's index operand
    val,           \* each thread's value operand (push) or the value it read (get_mut client)
    stale,         \* threads whose pointer refers to a mapping that was dropped
    returned,      \* history: the [idx, val] of every push that returned Ok(idx) in this session
    failed,        \* history: the indices claimed by a push that returned Err
    nfail,         \* history: I/O failures injected in this session
    nincr,         \* history: increments completed per slot in this session
    nmut,          \* history: increments completed since the directory was created
    fresh,         \* history: the session was opened on an empty directory
    outer,         \* each thread's MutableReferences held besides the one at idx, oldest first
    claimed,       \* history: the length counter when the last session ended
    alg            \* the last call of rank_ofs or min_max made on its own: build, fn, arg, out

vars == <<disk, proc, ranks, initialized, len, rank_writelock, writelocks,
          pc, idx, val, stale, returned, failed, nfail, nincr, nmut, fresh,
          outer, claimed, alg>>

\* ------------------------------------------------------- index algebra
RECURSIVE Pow2(_)
Pow2(n) == IF n = 0 THEN 1 ELSE 2 * Pow2(n - 1)

\* number of significant bits of n
RECURSIVE BitLen(_)
BitLen(n) == IF n = 0 THEN 0 ELSE 1 + BitLen(n \div 2)

leading_zeros(n) == USIZE_BITS - BitLen(n)

min_max(rank) ==
    IF rank = 0 THEN <<0, 0>>
    ELSE <<Pow2(rank) - 1, Pow2(rank + 1) - 2>>

rank_ofs(index) ==
    LET index1 == index + 1
        rank   == USIZE_BITS - leading_zeros(index1) - 1
    IN  <<rank, index1 - Pow2(rank)>>

RankOf(i) == rank_ofs(i)[1]
OfsOf(i) == rank_ofs(i)[2]

\* ------------------------------------------- index algebra on machine words
\* The same two functions computed on WordBits-wide unsigned words.  A build
\* with overflow checks ("debug") panics where an operation leaves the word;
\* a build without them ("release") wraps.  A panic is the value Panic, and
\* the empty tuple as a function's result.
Builds == {"debug", "release"}
Panic == 0 - 1
UsizeMax == Pow2(WordBits) - 1
\* RANKS is twice the width of a usize (128 for 64 bits)
RanksW == (RANKS \div USIZE_BITS) * WordBits

\* a + b
add_usize(build, a, b) ==
    IF a = Panic \/ b = Panic THEN Panic
    ELSE IF a + b > UsizeMax
         THEN (IF build = "debug" THEN Panic ELSE (a + b) % Pow2(WordBits))
         ELSE a + b

\* a - b
sub_usize(build, a, b) ==
    IF a = Panic \/ b = Panic THEN Panic
    ELSE IF a < b
         THEN (IF build = "debug" THEN Panic ELSE a - b + Pow2(WordBits))
         ELSE a - b

\* 2usize.pow(e as u32): the product leaves the word when e >= WordBits and
\* wraps to 0
pow_usize(build, e) ==
    IF e = Panic THEN Panic
    ELSE IF e >= WordBits
         THEN (IF build = "debug" THEN Panic ELSE 0)
         ELSE Pow2(e)

\* rank taken as the bit length of index itself, the + 1 of line 67 forgotten
rank_ofs_usize_no_incr(build, index) ==
    LET rank == sub_usize(build, WordBits - (WordBits - BitLen(index)), 1)
        ofs  == sub_usize(build, index, pow_usize(build, rank))
    IN  IF ofs = Panic THEN <<>> ELSE <<rank, ofs>>

\* lines 66-70
rank_ofs_usize(build, index) ==
    LET index1 == add_usize(build, index, 1)
        lz     == IF index1 = Panic THEN Panic ELSE WordBits - BitLen(index1)
        rank   == sub_usize(build, sub_usize(build, WordBits, lz), 1)
        ofs    == sub_usize(build, index1, pow_usize(build, rank))
    IN  IF ofs = Panic THEN <<>> ELSE <<rank, ofs>>

\* lines 58-64
min_max_usize(build, rank) ==
    IF rank = 0 THEN <<0, 0>>
    ELSE LET lo == sub_usize(build, pow_usize(build, rank), 1)
             hi == sub_usize(build, pow_usize(build, rank + 1), 2)
         IN  IF lo = Panic \/ hi = Panic THEN <<>> ELSE <<lo, hi>>

\* the logical indices the bounded model can touch: every slot of every rank
\* a claimed index can fall in
Max3(a, b, c) == IF a >= b /\ a >= c THEN a ELSE IF b >= c THEN b ELSE c
MaxSlot == min_max(RankOf(Max3(MaxPush, MaxPushSeq, MaxPushMut) - 1))[2]
Slots == 0..MaxSlot

\* --------------------------------------------------------- file names
\* decimal digits of n as character codes
RECURSIVE Decimal(_)
Decimal(n) == IF n < 10 THEN <<48 + n>> ELSE Decimal(n \div 10) \o <<48 + (n % 10)>>

\* format!("{}", rank)
FormatDisplay(rank) == Decimal(rank)

\* a Debug form that quotes the number, as Debug of a string does
FormatDebugQuoted(rank) == <<34>> \o Decimal(rank) \o <<34>>

\* format!("{:?}", rank): Debug of usize writes the same decimal digits
FormatDebug(rank) == Decimal(rank)

\* ------------------------------------------------------------ the disk
Exists(name) == name \in DOMAIN disk

\* a file of n zeroed elements (set_len on a just truncated file)
ZeroFile(n) == [i \in 1..n |-> ZEROED]

\* Mmap::open_path maps the whole file; a zero-length file cannot be mapped
CanMap(d, name) == name \in DOMAIN d /\ Len(d[name]) > 0

\* dereferencing ptr.offset(ofs) of rank's mapping raises SIGBUS when the
\* mapped file no longer reaches that far (it was truncated after mapping)
Faults(rank, ofs) == ofs >= Len(disk[ranks[rank]])

\* what the dereference reads otherwise
Deref(rank, ofs) == disk[ranks[rank]][ofs + 1]

\* a store through the mapping's base pointer, the offset forgotten
WriteSlotNoOffset(d, name, ofs, v) == [d EXCEPT ![name][1] = v]

\* ptr::write(ptr.offset(ofs), v) on the mapping of file name (lines 264-266)
WriteSlot(d, name, ofs, v) == [d EXCEPT ![name][ofs + 1] = v]

\* the element stored on disk for logical index i, ZEROED when there is none
Stored(i) ==
    LET name == FormatDisplay(RankOf(i))
    IN  IF Exists(name) /\ OfsOf(i) < Len(disk[name])
        THEN disk[name][OfsOf(i) + 1] ELSE ZEROED

\* ----------------------------------------------------------------- init
NoThreadState ==
    /\ pc = [t \in Threads |-> "idle"]
    /\ idx = [t \in Threads |-> 0]
    /\ val = [t \in Threads |-> 0]
    /\ stale = {}

Init ==
    /\ disk = <<>>
    /\ proc = "open"
    /\ ranks = <<>>
    /\ initialized = 0
    /\ len = 0
    /\ rank_writelock = 0
    /\ writelocks = {}
    /\ NoThreadState
    /\ returned = {}
    /\ failed = {}
    /\ nfail = 0
    /\ nincr = [i \in Slots |-> 0]
    /\ nmut = 0
    /\ fresh = TRUE
    /\ outer = [t \in Threads |-> <<>>]
    /\ claimed = 0
    /\ alg = [build |-> "debug", fn |-> "none", arg |-> 0, out |-> <<>>]

\* ------------------------------------------------------------------ new
\* lines 122-134: count the rank files that exist, stopping at the first
\* missing one
RECURSIVE ScanRanks(_)
ScanRanks(rank) ==
    IF rank < RANKS /\ Exists(FormatDisplay(rank)) THEN ScanRanks(rank + 1) ELSE rank

\* the search ending one short: len = min where line 153 has min + 1
RECURSIVE RecoverLoopOffByOne(_, _, _)
RecoverLoopOffByOne(rk, min, max) ==
    LET probe == min + (max - min) \div 2
        ro    == rank_ofs(probe)
        elem  == disk[rk[ro[1]]][ro[2] + 1]
    IN  IF elem # ZEROED
        THEN IF min = max THEN min ELSE RecoverLoopOffByOne(rk, probe + 1, max)
        ELSE IF min = max THEN min ELSE RecoverLoopOffByOne(rk, min, probe)

\* lines 139-164: the binary search of the highest rank, reading through the
\* mappings rk installed by the scan
RECURSIVE RecoverLoop(_, _, _)
RecoverLoop(rk, min, max) ==
    LET probe == min + (max - min) \div 2
        ro    == rank_ofs(probe)
        elem  == disk[rk[ro[1]]][ro[2] + 1]
    IN  IF elem # ZEROED
        THEN IF min = max THEN min + 1 ELSE RecoverLoop(rk, probe + 1, max)
        ELSE IF min = max THEN min ELSE RecoverLoop(rk, min, probe)

\* the highest rank taken to be full, its elements not searched
RecoverLenNoSearch(rk, n_ranks) ==
    IF n_ranks > 0 THEN min_max(n_ranks - 1)[2] + 1 ELSE 0

\* lines 136-165
RecoverLen(rk, n_ranks) ==
    IF n_ranks > 0
    THEN RecoverLoop(rk, min_max(n_ranks - 1)[1], min_max(n_ranks - 1)[2])
    ELSE 0

NoHistory ==
    /\ returned' = {}
    /\ failed' = {}
    /\ nfail' = 0
    /\ nincr' = [i \in Slots |-> 0]

FreshThreads ==
    /\ pc' = [t \in Threads |-> "idle"]
    /\ idx' = [t \in Threads |-> 0]
    /\ val' = [t \in Threads |-> 0]
    /\ stale' = {}
    /\ outer' = [t \in Threads |-> <<>>]

\* DiskVec::new returning Ok
New ==
    /\ proc # "open"
    /\ LET n_ranks == ScanRanks(0)
           rk      == [r \in 0..(n_ranks - 1) |-> FormatDisplay(r)]
       IN  /\ \A r \in 0..(n_ranks - 1) : CanMap(disk, rk[r])
           /\ ranks' = rk
           /\ initialized' = n_ranks
           /\ len' = RecoverLen(rk, n_ranks)
    /\ proc' = "open"
    /\ rank_writelock' = 0
    /\ writelocks' = {}
    /\ FreshThreads
    /\ NoHistory
    /\ fresh' = (DOMAIN disk = {})
    /\ UNCHANGED <<disk, nmut, claimed, alg>>

\* DiskVec::new returning Err at line 129: a rank file that cannot be mapped
NewErr ==
    /\ proc # "open"
    /\ \E r \in 0..(ScanRanks(0) - 1) : ~CanMap(disk, FormatDisplay(r))
    /\ UNCHANGED vars

\* a thread that panicked in the assertion of line 236, or in one of the
\* expect("accessing uninitialized rank") calls, has unwound and ended
Panicked == {"panicked_assert", "panicked_expect"}

\* the DiskVec is dropped once no thread is inside one of its methods; the
\* history of the session is kept until the directory is opened again
Close ==
    /\ proc = "open"
    /\ \A t \in Threads : pc[t] \in {"idle"} \cup Panicked
    /\ proc' = "closed"
    /\ ranks' = <<>>
    /\ initialized' = 0
    /\ len' = 0
    /\ rank_writelock' = 0
    /\ writelocks' = {}
    /\ FreshThreads
    /\ claimed' = len
    /\ UNCHANGED <<disk, returned, failed, nfail, nincr, nmut, fresh, alg>>

\* the process is killed at any point, also while appenders stand between
\* the fetch_add of line 238 and the write of line 266; what was stored
\* through the shared mappings stays in the files
Crash ==
    /\ proc = "open"
    /\ proc' = "dead"
    /\ claimed' = len
    /\ ranks' = <<>>
    /\ initialized' = 0
    /\ len' = 0
    /\ rank_writelock' = 0
    /\ writelocks' = {}
    /\ FreshThreads
    /\ UNCHANGED <<disk, returned, failed, nfail, nincr, nmut, fresh, alg>>

\* ----------------------------------------------------------------- push
\* the index claimed before the assertion is made
PushStartClaimFirst(t, v) ==
    /\ proc = "open"
    /\ pc[t] = "idle"
    /\ len' = len + 1
    /\ IF v = ZEROED
       THEN /\ pc' = [pc EXCEPT ![t] = "panicked_assert"]
            /\ UNCHANGED <<idx, val>>
       ELSE /\ idx' = [idx EXCEPT ![t] = len]
            /\ val' = [val EXCEPT ![t] = v]
            /\ pc' = [pc EXCEPT ![t] = "push_check"]
    /\ UNCHANGED <<disk, proc, ranks, initialized, rank_writelock, writelocks,
                   stale, returned, failed, nfail, nincr, nmut, fresh,
                   outer, claimed, alg>>

\* the index taken from the counter after the increment, not before
PushStartOffByOne(t, v) ==
    /\ proc = "open"
    /\ pc[t] = "idle"
    /\ IF v = ZEROED
       THEN /\ pc' = [pc EXCEPT ![t] = "panicked_assert"]
            /\ UNCHANGED <<idx, val, len>>
       ELSE /\ idx' = [idx EXCEPT ![t] = len + 1]
            /\ len' = len + 1
            /\ val' = [val EXCEPT ![t] = v]
            /\ pc' = [pc EXCEPT ![t] = "push_check"]
    /\ UNCHANGED <<disk, proc, ranks, initialized, rank_writelock, writelocks,
                   stale, returned, failed, nfail, nincr, nmut, fresh,
                   outer, claimed, alg>>

\* lines 235-239: the assertion, then the fetch_add that claims the index
PushStart(t, v) ==
    /\ proc = "open"
    /\ pc[t] = "idle"
    /\ IF v = ZEROED
       THEN \* assert!(t != T::ZEROED, "Cannot insert zeroes!")
            /\ pc' = [pc EXCEPT ![t] = "panicked_assert"]
            /\ UNCHANGED <<idx, val, len>>
       ELSE /\ idx' = [idx EXCEPT ![t] = len]
            /\ len' = len + 1
            /\ val' = [val EXCEPT ![t] = v]
            /\ pc' = [pc EXCEPT ![t] = "push_check"]
    /\ UNCHANGED <<disk, proc, ranks, initialized, rank_writelock, writelocks,
                   stale, returned, failed, nfail, nincr, nmut, fresh,
                   outer, claimed, alg>>

\* line 241
PushCheck(t) ==
    /\ proc = "open"
    /\ pc[t] = "push_check"
    /\ pc' = [pc EXCEPT ![t] = IF RankOf(idx[t]) >= initialized
                               THEN "push_lock" ELSE "push_write"]
    /\ UNCHANGED <<disk, proc, ranks, initialized, len, rank_writelock, writelocks,
                   idx, val, stale, returned, failed, nfail, nincr, nmut, fresh,
                   outer, claimed, alg>>

\* line 242
PushLock(t) ==
    /\ proc = "open"
    /\ pc[t] = "push_lock"
    /\ rank_writelock = 0
    /\ rank_writelock' = t
    /\ pc' = [pc EXCEPT ![t] = "push_recheck"]
    /\ UNCHANGED <<disk, proc, ranks, initialized, len, writelocks,
                   idx, val, stale, returned, failed, nfail, nincr, nmut, fresh,
                   outer, claimed, alg>>

\* line 244, and line 255 (the guard is dropped) when the rank is large enough
PushRecheck(t) ==
    /\ proc = "open"
    /\ pc[t] = "push_recheck"
    /\ IF RankOf(idx[t]) >= initialized
       THEN /\ pc' = [pc EXCEPT ![t] = "push_grow"]
            /\ UNCHANGED rank_writelock
       ELSE /\ pc' = [pc EXCEPT ![t] = "push_write"]
            /\ rank_writelock' = 0
    /\ UNCHANGED <<disk, proc, ranks, initialized, len, writelocks,
                   idx, val, stale, returned, failed, nfail, nincr, nmut, fresh,
                   outer, claimed, alg>>

\* the threads whose pointer was taken from rank's mapping (get_mut, line 207)
PointsInto(rank) ==
    {u \in Threads : pc[u] \in {"mut_lock", "mut_held", "mut_read"} /\ RankOf(idx[u]) = rank}

\* lines 245-252.  outcome names the I/O call that fails ("create": line 247,
\* "set_len": line 250, "mmap": line 251) or is "ok".  File::create truncates
\* an existing file; the ? operator returns Err and drops the guard.
PushGrow(t, outcome) ==
    /\ proc = "open"
    /\ pc[t] = "push_grow"
    /\ LET rank == RankOf(idx[t])
           path == FormatDebug(rank)
           n_elements == Pow2(rank)
       IN  /\ disk' = CASE outcome = "create"  -> disk
                        [] outcome = "set_len" -> (path :> <<>>) @@ disk
                        [] OTHER               -> (path :> ZeroFile(n_elements)) @@ disk
           /\ IF outcome = "ok"
              THEN /\ ranks' = (rank :> path) @@ ranks
                   /\ stale' = IF rank \in DOMAIN ranks
                               THEN stale \cup PointsInto(rank) ELSE stale
                   /\ pc' = [pc EXCEPT ![t] = "push_publish"]
                   /\ UNCHANGED <<rank_writelock, failed, nfail>>
              ELSE /\ nfail' = nfail + 1
                   /\ failed' = failed \cup {idx[t]}
                   /\ rank_writelock' = 0
                   /\ pc' = [pc EXCEPT ![t] = "idle"]
                   /\ UNCHANGED <<ranks, stale>>
    /\ UNCHANGED <<proc, initialized, len, writelocks, idx, val, 
                   returned, nincr, nmut, fresh,
                   outer, claimed, alg>>

\* lines 253-255
PushPublish(t) ==
    /\ proc = "open"
    /\ pc[t] = "push_publish"
    /\ initialized' = initialized + 1
    /\ rank_writelock' = 0
    /\ pc' = [pc EXCEPT ![t] = "push_write"]
    /\ UNCHANGED <<disk, proc, ranks, len, writelocks, idx, val, stale,
                   returned, failed, nfail, nincr, nmut, fresh,
                   outer, claimed, alg>>

\* lines 257-268
PushWrite(t) ==
    /\ proc = "open"
    /\ pc[t] = "push_write"
    /\ LET rank == RankOf(idx[t])
           ofs  == OfsOf(idx[t])
       IN  IF rank \notin DOMAIN ranks
           THEN \* expect("accessing uninitialized rank")
                /\ pc' = [pc EXCEPT ![t] = "panicked_expect"]
                /\ UNCHANGED <<disk, proc, returned>>
           ELSE IF Faults(rank, ofs)
           THEN /\ proc' = "dead"
                /\ UNCHANGED <<disk, pc, returned>>
           ELSE /\ disk' = WriteSlot(disk, ranks[rank], ofs, val[t])
                /\ returned' = returned \cup {[idx |-> idx[t], val |-> val[t]]}
                /\ pc' = [pc EXCEPT ![t] = "idle"]
                /\ UNCHANGED proc
    /\ UNCHANGED <<ranks, initialized, len, rank_writelock, writelocks,
                   idx, val, stale, failed, nfail, nincr, nmut, fresh,
                   outer, claimed, alg>>

\* ------------------------------------------------------------------ get
\* what lines 181-199 do for idx in the current state
GetOutcome(i) ==
    LET rank == RankOf(i)
        ofs  == OfsOf(i)
    IN  IF rank < initialized
        THEN IF rank \notin DOMAIN ranks THEN "panic"
             ELSE IF Faults(rank, ofs) THEN "sigbus"
             ELSE IF Deref(rank, ofs) = ZEROED THEN "none"
             ELSE "some"
        ELSE "none"

\* the Option that lines 181-199 return for idx in the current state:
\* <<>> is None, <<v>> is Some(&v)
GetResult(i) ==
    IF GetOutcome(i) = "some" THEN <<Deref(RankOf(i), OfsOf(i))>> ELSE <<>>

\* lines 180-200: get changes nothing unless it panics or faults
Get(t, i) ==
    /\ proc = "open"
    /\ pc[t] = "idle"
    /\ LET out == GetOutcome(i)
       IN  /\ pc' = [pc EXCEPT ![t] = IF out = "panic" THEN "panicked_expect" ELSE @]
           /\ proc' = IF out = "sigbus" THEN "dead" ELSE proc
    /\ UNCHANGED <<disk, ranks, initialized, len, rank_writelock, writelocks,
                   idx, val, stale, returned, failed, nfail, nincr, nmut, fresh,
                   outer, claimed, alg>>

\* -------------------------------------------------------------- get_mut
\* the handles that are live or being acquired
InFlight ==
    Cardinality({u \in Threads : pc[u] \in {"mut_lock", "mut_held", "mut_read"}})

\* lines 203-218: everything before the lock() of line 219; None is returned
\* without a change of state
GetMut(t, i) ==
    /\ proc = "open"
    /\ pc[t] = "idle"
    /\ LET out == GetOutcome(i)
       IN  /\ pc' = [pc EXCEPT ![t] = CASE out = "panic" -> "panicked_expect"
                                        [] out = "some"  -> "mut_lock"
                                        [] OTHER         -> @]
           /\ proc' = IF out = "sigbus" THEN "dead" ELSE proc
           /\ idx' = [idx EXCEPT ![t] = IF out = "some" THEN i ELSE @]
    /\ UNCHANGED <<disk, ranks, initialized, len, rank_writelock, writelocks,
                   val, stale, returned, failed, nfail, nincr, nmut, fresh,
                   outer, claimed, alg>>

\* a lock() that does not wait for the holder
MutLockNoWait(t) ==
    /\ proc = "open"
    /\ pc[t] = "mut_lock"
    /\ writelocks' = writelocks \cup {idx[t] % LOCKS}
    /\ pc' = [pc EXCEPT ![t] = "mut_held"]
    /\ UNCHANGED <<disk, proc, ranks, initialized, len, rank_writelock,
                   idx, val, stale, returned, failed, nfail, nincr, nmut, fresh,
                   outer, claimed, alg>>

\* line 219: self.writelocks[idx % LOCKS].lock()
MutLock(t) ==
    /\ proc = "open"
    /\ pc[t] = "mut_lock"
    /\ (idx[t] % LOCKS) \notin writelocks
    /\ writelocks' = writelocks \cup {idx[t] % LOCKS}
    /\ pc' = [pc EXCEPT ![t] = "mut_held"]
    /\ UNCHANGED <<disk, proc, ranks, initialized, len, rank_writelock,
                   idx, val, stale, returned, failed, nfail, nincr, nmut, fresh,
                   outer, claimed, alg>>

\* lines 203-226 called by a thread that still holds a handle: the handle at
\* idx is kept in outer while the new one is acquired
GetMutHeld(t, j) ==
    /\ proc = "open"
    /\ pc[t] = "mut_held"
    /\ LET out == GetOutcome(j)
       IN  /\ pc' = [pc EXCEPT ![t] = CASE out = "panic" -> "panicked_expect"
                                        [] out = "some"  -> "mut_lock"
                                        [] OTHER         -> @]
           /\ proc' = IF out = "sigbus" THEN "dead" ELSE proc
           /\ idx' = [idx EXCEPT ![t] = IF out = "some" THEN j ELSE @]
           /\ outer' = [outer EXCEPT ![t] = IF out = "some" THEN Append(@, idx[t]) ELSE @]
    /\ UNCHANGED <<disk, ranks, initialized, len, rank_writelock, writelocks,
                   val, stale, returned, failed, nfail, nincr, nmut, fresh,
                   claimed, alg>>

\* lines 73-79: a MutableReference is dropped, and its _guard with it; the
\* thread goes on with the handle it took before, when it holds one
MutDrop(t) ==
    /\ proc = "open"
    /\ pc[t] = "mut_held"
    /\ writelocks' = writelocks \ {idx[t] % LOCKS}
    /\ IF outer[t] = <<>>
       THEN /\ pc' = [pc EXCEPT ![t] = "idle"]
            /\ idx' = [idx EXCEPT ![t] = 0]
            /\ UNCHANGED outer
       ELSE /\ idx' = [idx EXCEPT ![t] = outer[t][Len(outer[t])]]
            /\ outer' = [outer EXCEPT ![t] = SubSeq(@, 1, Len(@) - 1)]
            /\ UNCHANGED pc
    /\ stale' = stale \ {t}
    /\ UNCHANGED <<disk, proc, ranks, initialized, len, rank_writelock,
                   val, returned, failed, nfail, nincr, nmut, fresh,
                   claimed, alg>>

\* the client of test::mutable_access reads the element through the handle
\* (lines 408-409).  A stale pointer refers to unmapped memory: the read
\* raises SIGSEGV, or finds the new mapping of the file at the same address.
MutRead(t, segv) ==
    /\ proc = "open"
    /\ pc[t] = "mut_held"
    /\ LET rank == RankOf(idx[t])
           ofs  == OfsOf(idx[t])
       IN  IF (segv /\ t \in stale) \/ Faults(rank, ofs)
           THEN /\ proc' = "dead"
                /\ UNCHANGED <<pc, val>>
           ELSE /\ val' = [val EXCEPT ![t] = Deref(rank, ofs)]
                /\ pc' = [pc EXCEPT ![t] = "mut_read"]
                /\ UNCHANGED proc
    /\ UNCHANGED <<disk, ranks, initialized, len, rank_writelock, writelocks,
                   idx, stale, returned, failed, nfail, nincr, nmut, fresh,
                   outer, claimed, alg>>

\* the client stores the incremented element through the handle and the
\* handle is dropped at the end of the closure (lines 407-411).  Through a
\* stale pointer the store raises SIGSEGV, lands outside the file ("lost"),
\* or lands in the new mapping of the file ("lands").
MutWrite(t, ub) ==
    /\ proc = "open"
    /\ pc[t] = "mut_read"
    /\ LET rank == RankOf(idx[t])
           ofs  == OfsOf(idx[t])
       IN  IF (ub = "segv" /\ t \in stale) \/ Faults(rank, ofs)
           THEN /\ proc' = "dead"
                /\ UNCHANGED <<disk, pc, writelocks, nincr, nmut, stale, idx, val>>
           ELSE /\ disk' = IF ub = "lost" /\ t \in stale THEN disk
                           ELSE WriteSlot(disk, ranks[rank], ofs, val[t] + 1)
                /\ writelocks' = writelocks \ {idx[t] % LOCKS}
                /\ nincr' = [nincr EXCEPT ![idx[t]] = @ + 1]
                /\ nmut' = nmut + 1
                /\ stale' = stale \ {t}
                /\ pc' = [pc EXCEPT ![t] = "idle"]
                /\ idx' = [idx EXCEPT ![t] = 0]
                /\ val' = [val EXCEPT ![t] = 0]
                /\ UNCHANGED proc
    /\ UNCHANGED <<ranks, initialized, len, rank_writelock, 
                   returned, failed, nfail, fresh,
                   outer, claimed, alg>>

\* ------------------------------------------------------- specifications
PushValues == 0..MaxVal
GetArgs == 0..(MaxSlot + 1)
Outcomes == {"ok", "create", "set_len", "mmap"}

\* the model's bound on the increments: no handle is asked for once the
\* increments made and the handles in flight number MaxIncr
MayIncr(incr) == nmut + InFlight < incr

\* every interleaving of every operation, with I/O failures, close and reopen
Next ==
    \/ \E t \in Threads, v \in PushValues : len < MaxPush /\ PushStart(t, v)
    \/ \E t \in Threads : PushCheck(t)
    \/ \E t \in Threads : PushLock(t)
    \/ \E t \in Threads : PushRecheck(t)
    \/ \E t \in Threads, o \in Outcomes : (o # "ok" => nfail < MaxFail) /\ PushGrow(t, o)
    \/ \E t \in Threads : PushPublish(t)
    \/ \E t \in Threads : PushWrite(t)
    \/ \E t \in Threads, i \in GetArgs : Get(t, i)
    \/ \E t \in Threads, i \in GetArgs : MayIncr(MaxIncr) /\ GetMut(t, i)
    \/ \E t \in Threads : MutLock(t)
    \/ \E t \in Threads, segv \in BOOLEAN : MutRead(t, segv)
    \/ \E t \in Threads, ub \in {"segv", "lost", "lands"} : MutWrite(t, ub)
    \/ Close
    \/ New
    \/ NewErr

Spec == Init /\ [][Next]_vars

\* concurrent pushes on a freshly opened container, no I/O failure
NextPush ==
    \/ \E t \in Threads, v \in PushValues : len < MaxPush /\ PushStart(t, v)
    \/ \E t \in Threads : PushCheck(t)
    \/ \E t \in Threads : PushLock(t)
    \/ \E t \in Threads : PushRecheck(t)
    \/ \E t \in Threads : PushGrow(t, "ok")
    \/ \E t \in Threads : PushPublish(t)
    \/ \E t \in Threads : PushWrite(t)

SpecPush == Init /\ [][NextPush]_vars

\* one thread, no I/O failure: push, get, get_mut, close and reopen
NextSeq ==
    \/ \E v \in PushValues : len < MaxPushSeq /\ PushStart(1, v)
    \/ PushCheck(1)
    \/ PushLock(1)
    \/ PushRecheck(1)
    \/ PushGrow(1, "ok")
    \/ PushPublish(1)
    \/ PushWrite(1)
    \/ \E i \in GetArgs : Get(1, i)
    \/ \E i \in GetArgs : MayIncr(MaxIncr) /\ GetMut(1, i)
    \/ MutLock(1)
    \/ MutRead(1, FALSE)
    \/ MutWrite(1, "lands")
    \/ Close
    \/ New

SpecSeq == Init /\ [][NextSeq]_vars

\* one appender (thread 1), no I/O failure, every thread incrementing
\* elements through get_mut as the threads of test::mutable_access do
NextMut ==
    \/ \E v \in PushValues : len < MaxPushMut /\ PushStart(1, v)
    \/ PushCheck(1)
    \/ PushLock(1)
    \/ PushRecheck(1)
    \/ PushGrow(1, "ok")
    \/ PushPublish(1)
    \/ PushWrite(1)
    \/ \E t \in Threads, i \in GetArgs : Get(t, i)
    \/ \E t \in Threads, i \in GetArgs : MayIncr(MaxIncrMut) /\ GetMut(t, i)
    \/ \E t \in Threads : MutLock(t)
    \/ \E t \in Threads : MutRead(t, FALSE)
    \/ \E t \in Threads : MutWrite(t, "lands")

SpecMut == Init /\ [][NextMut]_vars

\* concurrent pushes, the process killed at any point, and the directory
\* opened again; recovery tells zero from non-zero only, so one non-zero
\* value is pushed
NextCrash ==
    \/ \E t \in Threads : len < MaxPush /\ PushStart(t, 1)
    \/ \E t \in Threads : PushCheck(t)
    \/ \E t \in Threads : PushLock(t)
    \/ \E t \in Threads : PushRecheck(t)
    \/ \E t \in Threads : PushGrow(t, "ok")
    \/ \E t \in Threads : PushPublish(t)
    \/ \E t \in Threads : PushWrite(t)
    \/ Crash
    \/ New

SpecCrash == Init /\ [][NextCrash]_vars

\* one thread fills the container until two indices share a residue, then
\* takes MutableReferences, up to MaxHandles at once
FillLen == LOCKS + 2
LockArgs == {0, 1, LOCKS, LOCKS + 1}

NextLock ==
    \/ len < FillLen /\ PushStart(1, 1)
    \/ PushCheck(1)
    \/ PushLock(1)
    \/ PushRecheck(1)
    \/ PushGrow(1, "ok")
    \/ PushPublish(1)
    \/ PushWrite(1)
    \/ \E i \in LockArgs : len = FillLen /\ GetMut(1, i)
    \/ \E j \in LockArgs : Len(outer[1]) + 1 < MaxHandles /\ GetMutHeld(1, j)
    \/ MutLock(1)
    \/ MutDrop(1)

SpecLock == Init /\ [][NextLock]_vars

\* every thread pushes (with I/O failures) and increments elements through
\* get_mut, one handle at a time, under a fair scheduler: a thread that can
\* take a step eventually takes it, and a parking_lot Mutex that is free again
\* and again is eventually given to a thread that waits for it
NextFair ==
    \/ \E t \in Threads, v \in PushValues : len < MaxPushMut /\ PushStart(t, v)
    \/ \E t \in Threads : PushCheck(t)
    \/ \E t \in Threads : PushLock(t)
    \/ \E t \in Threads : PushRecheck(t)
    \/ \E t \in Threads, o \in Outcomes : (o # "ok" => nfail < MaxFail) /\ PushGrow(t, o)
    \/ \E t \in Threads : PushPublish(t)
    \/ \E t \in Threads : PushWrite(t)
    \/ \E t \in Threads, i \in GetArgs : MayIncr(MaxIncr) /\ GetMut(t, i)
    \/ \E t \in Threads : MutLock(t)
    \/ \E t \in Threads, segv \in BOOLEAN : MutRead(t, segv)
    \/ \E t \in Threads, ub \in {"segv", "lost", "lands"} : MutWrite(t, ub)

Fairness ==
    \A t \in Threads :
        /\ WF_vars(PushCheck(t))
        /\ SF_vars(PushLock(t))
        /\ WF_vars(PushRecheck(t))
        /\ WF_vars(\E o \in Outcomes : (o # "ok" => nfail < MaxFail) /\ PushGrow(t, o))
        /\ WF_vars(PushPublish(t))
        /\ WF_vars(PushWrite(t))
        /\ SF_vars(MutLock(t))
        /\ WF_vars(\E segv \in BOOLEAN : MutRead(t, segv))
        /\ WF_vars(\E ub \in {"segv", "lost", "lands"} : MutWrite(t, ub))

SpecFair == Init /\ [][NextFair]_vars /\ Fairness

\* the index algebra called on its own, as test::mapping and
\* test::min_max_index call it, on every usize and on every rank below RANKS
CallRankOfs(build, index) ==
    /\ alg' = [build |-> build, fn |-> "rank_ofs", arg |-> index,
               out |-> rank_ofs_usize(build, index)]
    /\ UNCHANGED <<disk, proc, ranks, initialized, len, rank_writelock, writelocks,
                   pc, idx, val, stale, returned, failed, nfail, nincr, nmut, fresh,
                   outer, claimed>>

CallMinMax(build, rank) ==
    /\ alg' = [build |-> build, fn |-> "min_max", arg |-> rank,
               out |-> min_max_usize(build, rank)]
    /\ UNCHANGED <<disk, proc, ranks, initialized, len, rank_writelock, writelocks,
                   pc, idx, val, stale, returned, failed, nfail, nincr, nmut, fresh,
                   outer, claimed>>

NextAlg ==
    \/ \E b \in Builds, i \in 0..UsizeMax : CallRankOfs(b, i)
    \/ \E b \in Builds, r \in 0..(RanksW - 1) : CallMinMax(b, r)

SpecAlg == Init /\ [][NextAlg]_vars

\* --------------------------------------------------------------- claims
PushPcs == {"push_check", "push_lock", "push_recheck", "push_grow", "push_publish", "push_write"}
MutPcs == {"mut_held", "mut_read"}
Finished(t) == pc[t] \in {"idle"} \cup Panicked
ReturnedIdx == {r.idx : r \in returned}

\* C1: whenever a push reaches its slot write for claimed index i, rank r(i)
\* is mapped, so the "accessing uninitialized rank" check never fails
\* (concurrent pushes, no I/O failure).
C1_RankMappedAtWrite ==
    \A t \in Threads : pc[t] = "push_write" => RankOf(idx[t]) \in DOMAIN ranks

\* C2: no lost updates: once all push calls have returned, for every push
\* that returned index i with value v the slot at index i holds v; and no
\* step of one push erases or replaces a slot already written by another
\* push (concurrent pushes, no I/O failure, no get_mut).
C2_NoLostUpdate ==
    /\ []((\A t \in Threads : pc[t] = "idle") =>
             \A r \in returned : Stored(r.idx) = r.val)
    /\ [][\A r \in returned :
             Stored(r.idx) = r.val => Stored(r.idx)' = r.val]_vars

\* C3: once every push call has finished, the indices returned are exactly
\* 0..N-1, pairwise distinct, and len() = N, N the number of push calls that
\* passed the zero check (concurrent pushes, fresh container, no I/O failure).
C3_ReturnedIndicesCoverClaims ==
    (\A t \in Threads : Finished(t)) =>
        /\ ReturnedIdx = 0..(len - 1)
        /\ Cardinality(returned) = len

\* C4: reads never fail: in every reachable state get(i) returns a reference
\* to a non-zero element or None for every index i; it never dereferences a
\* rank whose mapping is not installed.
C4_GetNeverFails ==
    proc = "open" => \A i \in GetArgs : GetOutcome(i) \in {"none", "some"}

\* C5: at most one live MutableReference per residue class idx % LOCKS, and
\* no increment made through get_mut is lost: a pushed element holds its
\* pushed value plus the number of increments completed on it.
C5_NoLostIncrement ==
    /\ \A t, u \in Threads :
          (t # u /\ pc[t] \in MutPcs /\ pc[u] \in MutPcs)
              => (idx[t] % LOCKS) # (idx[u] % LOCKS)
    /\ \A r \in returned : Stored(r.idx) = r.val + nincr[r.idx]

\* C5 witness: one thread is in the middle of its increment of element i
\* while another waits for the same write guard.
C5_Witness ==
    \E t, u \in Threads :
        /\ pc[t] = "mut_read" /\ pc[u] = "mut_lock" /\ idx[t] = idx[u]
        /\ \E r \in returned : r.idx = idx[t]

\* C6: persistence: when a container opened on a fresh directory is dropped
\* after n pushes and the directory is opened again, len() = n and get(i) is
\* the element last stored at i for every pushed index i.
C6_Persistence ==
    [][(proc = "closed" /\ proc' = "open" /\ fresh) =>
          /\ len' = Cardinality(returned)
          /\ \A r \in returned : GetResult(r.idx)' = <<r.val + nincr[r.idx]>>]_vars

\* C6 witness: a reopened container that recovered three elements, the ranks
\* 0 and 1 both full.
C6_Witness ==
    /\ proc = "open" /\ ~fresh /\ returned = {} /\ pc[1] = "idle"
    /\ len = 3 /\ initialized = 2
    /\ \A i \in 0..2 : GetOutcome(i) = "some"

\* C7: round trip: single-threaded and without I/O failure, after push(v)
\* returned i, get(i) returns v, also after further pushes, as long as no
\* get_mut handle modified slot i.
C7_RoundTrip ==
    proc = "open" =>
        \A r \in returned : nincr[r.idx] = 0 => GetResult(r.idx) = <<r.val>>

\* C7 witness: index 0 still reads its pushed value after three more pushes
\* that grew two ranks.
C7_Witness ==
    /\ proc = "open" /\ Cardinality(returned) >= 4 /\ nincr[0] = 0
    /\ \E r \in returned : r.idx = 0 /\ GetResult(0) = <<r.val>>

\* C8: single-threaded on a fresh directory without I/O failure the k-th push
\* returns index k, and in every quiescent state get(i) returns None for
\* every i >= len(), whether rank r(i) is unmapped or mapped and unwritten.
C8_SequentialIndices ==
    /\ (fresh /\ proc = "open") =>
          /\ ReturnedIdx = 0..(Cardinality(returned) - 1)
          /\ pc[1] \in PushPcs => idx[1] = Cardinality(returned)
    /\ (proc = "open" /\ pc[1] = "idle") =>
          \A i \in GetArgs : i >= len => GetOutcome(i) = "none"

\* C8 witness: two pushes returned 0 and 1; index 2 is in the mapped rank 1
\* and unwritten, index 3 is in the unmapped rank 2.
C8_Witness ==
    /\ fresh /\ proc = "open" /\ pc[1] = "idle"
    /\ len = 2 /\ ReturnedIdx = {0, 1}
    /\ 1 \in DOMAIN ranks /\ 2 \notin DOMAIN ranks
    /\ GetOutcome(2) = "none" /\ GetOutcome(3) = "none"

\* C9: after a push failed with an I/O error during growth, the length
\* counter stays advanced, no later push is assigned the failed index, and
\* get on it returns None in every later state of the session.
C9_FailedIndexReadsAbsent ==
    proc = "open" =>
        \A i \in failed :
            /\ i < len
            /\ i \notin ReturnedIdx
            /\ \A t \in Threads : pc[t] \in PushPcs => idx[t] # i
            /\ GetOutcome(i) = "none"

\* C10: push(ZEROED) aborts in the assertion before an index is claimed: the
\* length counter, the initialized counter, the rank table and every slot
\* are unchanged by the rejected call.
C10_ZeroPushChangesNothing ==
    [][\A t \in Threads :
          PushStart(t, ZEROED) =>
              /\ pc'[t] = "panicked_assert"
              /\ UNCHANGED <<len, initialized, ranks, disk>>]_vars

\* C10 witness: a call was rejected after two pushes had returned, and the
\* length counter is still 2.
C10_Witness ==
    /\ \E t \in Threads : pc[t] = "panicked_assert"
    /\ len = 2 /\ Cardinality(returned) = 2

\* C11: rank_ofs is a bijection between the indices and the pairs (rank,
\* offset): for every index i whose successor is a usize, rank_ofs(i) = (r, o)
\* with r = floor(log2(i+1)), 0 <= o < 2^r and 2^r + o - 1 = i; the indices
\* 0..6 map to (0,0),(1,0),(1,1),(2,0),(2,1),(2,2),(2,3).  (The recomposition
\* makes the map injective; there are as many pairs with r < WordBits as there
\* are such indices.)
C11_RankOfsBijection ==
    (alg.fn = "rank_ofs" /\ alg.arg < UsizeMax) =>
        /\ Len(alg.out) = 2
        /\ LET i == alg.arg
               r == alg.out[1]
               o == alg.out[2]
           IN  /\ Pow2(r) <= i + 1 /\ i + 1 < Pow2(r + 1)
               /\ 0 <= o /\ o < Pow2(r)
               /\ Pow2(r) + o - 1 = i
               /\ alg.out = rank_ofs(i)
               /\ i <= 6 => alg.out = <<<<0, 0>>, <<1, 0>>, <<1, 1>>, <<2, 0>>,
                                         <<2, 1>>, <<2, 2>>, <<2, 3>>>>[i + 1]

\* C11 witness: rank_ofs(6) was computed and gave (2, 3).
C11_Witness ==
    alg.fn = "rank_ofs" /\ alg.arg = 6 /\ alg.out = <<2, 3>>

\* C12: min_max returns (0,0) for rank 0 and (2^r - 1, 2^(r+1) - 2) for every
\* rank r > 0, the least and the greatest index whose rank_ofs has rank r;
\* stated for the ranks that an index can have.
C12_MinMaxBounds ==
    (alg.fn = "min_max" /\ alg.arg < WordBits) =>
        LET r == alg.arg
        IN  /\ alg.out = IF r = 0 THEN <<0, 0>>
                         ELSE <<Pow2(r) - 1, Pow2(r + 1) - 2>>
            /\ rank_ofs_usize(alg.build, alg.out[1]) = <<r, 0>>
            /\ rank_ofs_usize(alg.build, alg.out[2]) = <<r, Pow2(r) - 1>>

\* C20: the index algebra is total: rank_ofs(i) for every usize i, the
\* largest included, and min_max(r) for every rank r < RANKS are computed
\* without arithmetic overflow.
C20_NoOverflow ==
    (alg.build = "debug" /\ alg.fn # "none") => alg.out # <<>>

\* C13: rank-table invariant: the ranks whose mapping is installed are exactly
\* 0 .. initialized-1 (stated for the states in which no push stands between
\* installing a mapping, line 252, and counting it, line 253).
C13_RankTable ==
    (proc = "open" /\ \A t \in Threads : pc[t] # "push_publish") =>
        DOMAIN ranks = 0..(initialized - 1)

\* C14: a rank entry goes from absent to present at most once per session: no
\* push creates or truncates the file of a rank whose mapping is installed,
\* or replaces that mapping.
C14_RankInstalledOnce ==
    [][(proc = "open" /\ proc' = "open") =>
          \A r \in DOMAIN ranks :
              /\ r \in DOMAIN ranks' /\ ranks'[r] = ranks[r]
              /\ \A t \in Threads :
                    (pc[t] = "push_grow" /\ pc'[t] # "push_grow") => RankOf(idx[t]) # r]_vars

\* the directory as an open finds it: the highest rank k of the scan, its
\* index range, and the claimed indices of rank k that hold no element
TopRank == ScanRanks(0) - 1
TopMin == min_max(TopRank)[1]
TopMax == min_max(TopRank)[2]
TopZero == {i \in TopMin..TopMax : Stored(i) = ZEROED}
Lowest(S) == CHOOSE i \in S : \A j \in S : i <= j
ContiguousPrefix ==
    \A i, j \in TopMin..TopMax : (i < j /\ Stored(j) # ZEROED) => Stored(i) # ZEROED
Gaps == {i \in TopMin..(claimed - 1) : Stored(i) = ZEROED}
\* claimed indices reach into rank k and not beyond; all of them are written
\* but for the gaps of rank k
GapsOnlyInTopRank ==
    /\ ScanRanks(0) > 0
    /\ TopMin < claimed /\ claimed <= TopMax + 1
    /\ \A i \in 0..(TopMin - 1) : Stored(i) # ZEROED
    /\ \A i \in claimed..TopMax : Stored(i) = ZEROED
Opens == proc # "open" /\ proc' = "open"
JustOpened ==
    /\ proc = "open" /\ returned = {} /\ failed = {}
    /\ \A t \in Threads : pc[t] = "idle"

\* C15: length recovery: an open that finds no rank file sets len to 0; when
\* the non-zero slots of the highest rank k form a contiguous prefix, it sets
\* len to the lowest index of rank k whose slot is zero, or to max(k)+1 when
\* none is.
C15_RecoveredLength ==
    [][Opens =>
          IF ScanRanks(0) = 0 THEN len' = 0
          ELSE ContiguousPrefix =>
                  len' = IF TopZero = {} THEN TopMax + 1 ELSE Lowest(TopZero)]_vars

\* C15 witness: an open that found rank 1 with its first slot written and its
\* second not, and recovered len = 2.
C15_Witness ==
    /\ JustOpened /\ TopRank = 1 /\ ContiguousPrefix
    /\ TopZero = {2} /\ len = 2

\* C16 as stated: with g claimed but unwritten slots in the highest rank, every
\* other claimed slot written, the recovered length is the number of claimed
\* indices less g.
C16_UnderCountOnePerGap ==
    [][(Opens /\ GapsOnlyInTopRank) => len' = claimed - Cardinality(Gaps)]_vars

\* C16 amended: the recovered length is the number of claimed indices or the
\* index of one of the gaps, and it is lower by exactly one per gap when the
\* gaps are the last claimed slots.
C16_RecoversAtAGap ==
    [][(Opens /\ GapsOnlyInTopRank) =>
          /\ len' \in Gaps \cup {claimed}
          /\ (\A i \in Gaps : \A j \in i..(claimed - 1) : j \in Gaps)
                 => len' = claimed - Cardinality(Gaps)]_vars

\* C16 witness: three indices were claimed, index 1 was never written, index
\* 2 was: the open recovered len = 1, two short of the claims for one gap.
C16_Witness ==
    /\ JustOpened /\ GapsOnlyInTopRank
    /\ claimed = 3 /\ Gaps = {1} /\ len = 1

\* C17: push only ever writes a still unwritten slot: over concurrent pushes,
\* pushes that fail during growth and pushes made after a close and reopen,
\* the slot a push stores into holds ZEROED at that moment.
C17_PushWritesUnwrittenSlot ==
    [][\A t \in Threads :
          (proc = "open" /\ proc' = "open" /\ pc[t] = "push_write" /\ pc'[t] = "idle")
              => Deref(RankOf(idx[t]), OfsOf(idx[t])) = ZEROED]_vars

\* thread t waits at line 219 for the write guard of a residue that one of
\* its own handles, for a different index, holds
SelfBlocked(t) ==
    /\ pc[t] = "mut_lock"
    /\ \E k \in 1..Len(outer[t]) :
          outer[t][k] # idx[t] /\ outer[t][k] % LOCKS = idx[t] % LOCKS

\* C18: a thread that holds a MutableReference for index i and calls
\* get_mut(j) for a populated j # i with j % LOCKS = i % LOCKS blocks forever
\* on the write guard it holds itself.
C18_SelfDeadlock ==
    [][\A t \in Threads : SelfBlocked(t) => SelfBlocked(t)']_vars

\* C18 witness: the single thread holds the handle of index 0 and waits in
\* get_mut(1024).
C18_Witness ==
    /\ SelfBlocked(1) /\ outer[1] = <<0>> /\ idx[1] = LOCKS
    /\ GetOutcome(0) = "some" /\ GetOutcome(LOCKS) = "some"

\* C19: progress: with at most one MutableReference per thread, each
\* eventually dropped, and fair scheduling, every push and every get_mut call
\* eventually returns; the growth guard is held only inside the growth block
\* of push (it is released on every exit path, the I/O errors included).
C19_Progress ==
    /\ [](\A t \in Threads :
             rank_writelock = t => pc[t] \in {"push_recheck", "push_grow", "push_publish"})
    /\ \A t \in Threads : (pc[t] \in PushPcs) ~> (pc[t] = "idle")
    /\ \A t \in Threads : (pc[t] = "mut_lock") ~> (pc[t] = "mut_held")

====
